---------------------------- MODULE Spec2Model ----------------------------
(***************************************************************************)
(* A model of the first-order resolution prover of src/main.py: the term   *)
(* model, unification with occurs-check, substitution application, the     *)
(* binary resolution rule and the saturation loop.                         *)
(*                                                                         *)
(* Python objects are records of one shape [k, name, args]:                *)
(*   Term(name)            [k |-> "Term",     name, args |-> << >>]        *)
(*   Function(name, args)  [k |-> "Function", name, args]                  *)
(*   a Python list         [k |-> "list",     name |-> "", args]           *)
(* so that isinstance tests become tests of k, and == is record equality   *)
(* (Term.__eq__, Function.__eq__ and list equality are all structural and  *)
(* never equate objects of different classes).                             *)
(***************************************************************************)
EXTENDS Integers, Sequences, FiniteSets, TLC

VARIABLES
    \* ---- the saturation loop, resolution(kb) ----
    kb,        \* the argument of resolution: a list of clauses
    clauses,   \* the working list (line 242)
    new,       \* the round's buffer, a set of Clause objects (line 243)
    derived,   \* the set of derived clauses, keyed by frozenset(literals) (line 244)
    n,         \* len(clauses) at the start of the round (line 247)
    pairs,     \* the round's list of pairs, as index pairs (line 248)
    k,         \* the position of the for loop of line 249 in pairs
    pc,        \* "start" | "pairs" | "done"
    verdict,   \* the value returned: "yes" | "no" ("" while running)
    rounds,    \* how many rounds were started (saturating at RoundCap)
    prev,      \* the outcome of an earlier run on the same kb, if any
    \* ---- one call of unify and of substitute ----
    ux, uy,    \* the arguments of unify
    ures,      \* unify(ux, uy, {})
    urev,      \* unify(uy, ux, {})
    ut,        \* the term substitute is applied to
    uonce,     \* substitute(ut, s)
    utwice,    \* substitute(substitute(ut, s), s)
    usx, usy,  \* ux and uy with s applied to them
    upc        \* "init" | "unified" | "applied" | "off"

loopVars == <<kb, clauses, new, derived, n, pairs, k, pc, verdict, rounds, prev>>
unifyVars == <<ux, uy, ures, urev, ut, uonce, utwice, usx, usy, upc>>
vars == <<kb, clauses, new, derived, n, pairs, k, pc, verdict, rounds, prev,
          ux, uy, ures, urev, ut, uonce, utwice, usx, usy, upc>>

Range(s) == {s[a] : a \in 1..Len(s)}

---------------------------------------------------------------------------
(* Data classes, lines 9-74 *)

Term(name) == [k |-> "Term", name |-> name, args |-> << >>]
Function(name, args) == [k |-> "Function", name |-> name, args |-> args]
List(elems) == [k |-> "list", name |-> "", args |-> elems]
Predicate(name, args, negated) == [name |-> name, args |-> args, negated |-> negated]

\* The names of the model that match [a-z][a-zA-Z0-9_]* (Term.is_variable, line 14)
LowerNames == {"x", "y", "z"}
\* The names of the model that match [A-Z][a-zA-Z0-9_]* (Term.is_constant, line 17)
UpperNames == {"A", "B"}

\* is_variable(x), lines 155-156
is_variable(x) == x.k = "Term" /\ x.name \in LowerNames

---------------------------------------------------------------------------
(* Unification, lines 158-206.  A result is [st, m]: st = "ok" with the    *)
(* substitution m (a dict, here a function on its keys), st = "None" for   *)
(* the failure value, st = "TypeError" for the exception `x in subst`      *)
(* raises when x is a list (unhashable).                                   *)

EmptySubst == [v \in {} |-> v]
Ok(m) == [st |-> "ok", m |-> m]
None == [st |-> "None", m |-> EmptySubst]
TypeError == [st |-> "TypeError", m |-> EmptySubst]

RECURSIVE unify(_, _, _)
RECURSIVE unify_var(_, _, _)
RECURSIVE unify_lists(_, _, _)
RECURSIVE occurs_check(_, _, _)
RECURSIVE substitute(_, _)

\* occurs_check(var, x, subst), lines 197-206
occurs_check(var, x, subst) ==
    IF var = x THEN TRUE
    ELSE IF x.k = "Term" /\ x \in DOMAIN subst
         THEN occurs_check(var, subst[x], subst)
    ELSE IF x.k = "Function"
         THEN \E a \in 1..Len(x.args) : occurs_check(var, x.args[a], subst)
    ELSE IF x.k = "list"
         THEN \E a \in 1..Len(x.args) : occurs_check(var, x.args[a], subst)
    ELSE FALSE

\* unify_var without the occurs-check branch of lines 181-182
unify_var_NoOccurs(var, x, r) ==
    IF var \in DOMAIN r.m THEN unify(r.m[var], x, r)
    ELSE IF x.k = "list" THEN TypeError
    ELSE IF x \in DOMAIN r.m THEN unify(var, r.m[x], r)
    ELSE Ok([v \in (DOMAIN r.m) \cup {var} |-> IF v = var THEN x ELSE r.m[v]])

\* unify_var(var, x, subst), lines 176-186; r is the result carrying subst
unify_var(var, x, r) ==
    IF var \in DOMAIN r.m THEN unify(r.m[var], x, r)
    ELSE IF x.k = "list" THEN TypeError
    ELSE IF x \in DOMAIN r.m THEN unify(var, r.m[x], r)
    ELSE IF occurs_check(var, x, r.m) THEN None
    ELSE Ok([v \in (DOMAIN r.m) \cup {var} |-> IF v = var THEN x ELSE r.m[v]])

\* unify_lists whose loop returns after its first pair
unify_lists_FirstOnly(xs, ys, r) ==
    IF Len(xs) # Len(ys) THEN None
    ELSE IF r.st # "ok" THEN r
    ELSE IF xs = << >> THEN r
    ELSE unify(Head(xs), Head(ys), r)

\* unify_lists(xs, ys, subst), lines 188-195: the zip loop, left to right
unify_lists(xs, ys, r) ==
    IF Len(xs) # Len(ys) THEN None
    ELSE IF r.st # "ok" THEN r
    ELSE IF xs = << >> THEN r
    ELSE unify_lists(Tail(xs), Tail(ys), unify(Head(xs), Head(ys), r))

\* unify that tries only x as the variable (the branch of lines 165-166 missing)
unify_OneSided(x, y, r) ==
    IF r.st # "ok" THEN r
    ELSE IF x = y THEN r
    ELSE IF is_variable(x) THEN unify_var(x, y, r)
    ELSE IF x.k = "Function" /\ y.k = "Function"
         THEN IF x.name # y.name \/ Len(x.args) # Len(y.args) THEN None
              ELSE unify_lists(x.args, y.args, r)
    ELSE IF x.k = "list" /\ y.k = "list" THEN unify_lists(x.args, y.args, r)
    ELSE None

\* unify(x, y, subst), lines 158-174
unify(x, y, r) ==
    IF r.st # "ok" THEN r
    ELSE IF x = y THEN r
    ELSE IF is_variable(x) THEN unify_var(x, y, r)
    ELSE IF is_variable(y) THEN unify_var(y, x, r)
    ELSE IF x.k = "Function" /\ y.k = "Function"
         THEN IF x.name # y.name \/ Len(x.args) # Len(y.args) THEN None
              ELSE unify_lists(x.args, y.args, r)
    ELSE IF x.k = "list" /\ y.k = "list" THEN unify_lists(x.args, y.args, r)
    ELSE None

\* substitute that chases a binding one level only (no recursion on the value)
substitute_OneLevel(term, subst) ==
    IF term \in DOMAIN subst THEN subst[term]
    ELSE IF term.k = "Function"
         THEN Function(term.name,
                       [a \in 1..Len(term.args) |-> substitute(term.args[a], subst)])
    ELSE term

\* substitute(term, subst), lines 212-217
substitute(term, subst) ==
    IF term \in DOMAIN subst THEN substitute(subst[term], subst)
    ELSE IF term.k = "Function"
         THEN Function(term.name,
                       [a \in 1..Len(term.args) |-> substitute(term.args[a], subst)])
    ELSE term

\* substitute_predicate(pred, subst), lines 219-221
substitute_predicate(pred, subst) ==
    Predicate(pred.name,
              [a \in 1..Len(pred.args) |-> substitute(pred.args[a], subst)],
              pred.negated)

---------------------------------------------------------------------------
(* The inputs of the unification runs *)

\* Bounds of the unification inputs
MaxDepth == 1
MaxLen == 2

\* Terms over the variables x, y, the constant A, f/1 and g/2, nested to depth d
RECURSIVE TermsOfDepth(_)
TermsOfDepth(d) ==
    IF d = 0 THEN {Term("x"), Term("y"), Term("A")}
    ELSE LET T == TermsOfDepth(d - 1)
         IN  T \cup {Function("f", <<a>>) : a \in T}
               \cup {Function("g", <<a, b>>) : a, b \in T}

\* The elements of the argument lists that are unified
ListElems == {Term("x"), Term("y"), Term("z"), Term("A"), Term("B"),
              Function("f", <<Term("x")>>), Function("f", <<Term("y")>>)}

ArgLists == {List(s) : s \in UNION {[1..m -> ListElems] : m \in 0..MaxLen}}

\* The terms substitute is probed with after a unification
ProbeTerms == {Term("x"), Term("y"), Term("z"), Term("A"),
               Function("g", <<Term("x"), Function("f", <<Term("y")>>)>>)}

\* unify is called on two terms or on two argument lists (line 232 and the
\* recursion of lines 170, 192); a term against a list is the mixed call.
UnifyInputs ==
    (TermsOfDepth(MaxDepth) \X TermsOfDepth(MaxDepth))
    \cup (ArgLists \X ArgLists)
    \cup {<<t, l>> : t \in TermsOfDepth(0), l \in {List(<< >>), List(<<Term("A")>>)}}
    \cup {<<l, t>> : t \in TermsOfDepth(0), l \in {List(<< >>), List(<<Term("A")>>)}}

\* [substitute(arg, subst) for arg in args] (line 220), or substitute on a term
substitute_all(x, subst) ==
    IF x.k = "list"
    THEN List([a \in 1..Len(x.args) |-> substitute(x.args[a], subst)])
    ELSE substitute(x, subst)

NoResult == [st |-> "none yet", m |-> EmptySubst]
NoTerm == Term("")

UnifyOff ==
    /\ ux = NoTerm /\ uy = NoTerm /\ ures = NoResult /\ urev = NoResult
    /\ ut = NoTerm /\ uonce = NoTerm /\ utwice = NoTerm
    /\ usx = NoTerm /\ usy = NoTerm /\ upc = "off"

LoopOff ==
    /\ kb = << >> /\ clauses = << >> /\ new = {} /\ derived = {} /\ n = 0
    /\ pairs = << >> /\ k = 0 /\ pc = "off" /\ verdict = "" /\ rounds = 0
    /\ prev = [ran |-> FALSE, verdict |-> "", card |-> 0]

InitU ==
    /\ LoopOff
    /\ \E inp \in UnifyInputs : ux = inp[1] /\ uy = inp[2]
    /\ ures = NoResult /\ urev = NoResult
    /\ ut = NoTerm /\ uonce = NoTerm /\ utwice = NoTerm
    /\ usx = NoTerm /\ usy = NoTerm
    /\ upc = "init"

\* unify(x, y, {}) and unify(y, x, {})
CallUnify ==
    /\ upc = "init"
    /\ ures' = unify(ux, uy, Ok(EmptySubst))
    /\ urev' = unify(uy, ux, Ok(EmptySubst))
    /\ upc' = "unified"
    /\ UNCHANGED <<ux, uy, ut, uonce, utwice, usx, usy>>
    /\ UNCHANGED loopVars

\* The s unify returned applied to both arguments, and once and twice to a term t
CallSubstitute ==
    /\ upc = "unified"
    /\ ures.st = "ok"
    /\ usx' = substitute_all(ux, ures.m)
    /\ usy' = substitute_all(uy, ures.m)
    /\ \E t \in ProbeTerms \cup {ux, uy} :
         /\ ut' = t
         /\ uonce' = substitute_all(t, ures.m)
         /\ utwice' = substitute_all(substitute_all(t, ures.m), ures.m)
    /\ upc' = "applied"
    /\ UNCHANGED <<ux, uy, ures, urev>>
    /\ UNCHANGED loopVars

NextU == CallUnify \/ CallSubstitute

SpecU == InitU /\ [][NextU]_vars

---------------------------------------------------------------------------
(* Resolution, lines 227-260.  A Clause object is [literals |-> a list]; its *)
(* __eq__ and __hash__ (lines 70-74) read only the set of its literals.      *)

Clause(literals) == [literals |-> literals]

\* frozenset(self.literals), what Clause.__eq__ and Clause.__hash__ compare
ClauseKey(c) == Range(c.literals)

\* The lists a Python set S can be listed as (its iteration order is arbitrary)
Orderings(S) ==
    {s \in [1..Cardinality(S) -> S] :
        \A a, b \in 1..Cardinality(S) : s[a] = s[b] => a = b}

\* [substitute_predicate(p, subst) for p in c.literals if p != lit], as a set
Rest(c, lit, subst) ==
    {substitute_predicate(c.literals[a], subst) :
        a \in {b \in 1..Len(c.literals) : c.literals[b] # lit}}

\* The body of the two loops of lines 229-230 for the literals at a and b:
\* no resolvent, or the one set(new_ci + new_cj) of line 236
ResolventsAt(ci, cj, a, b) ==
    LET pi == ci.literals[a]
        pj == cj.literals[b]
        r  == unify(List(pi.args), List(pj.args), Ok(EmptySubst))
    IN  IF pi.name = pj.name /\ pi.negated # pj.negated /\ r.st = "ok"
        THEN <<Rest(ci, pi, r.m) \cup Rest(cj, pj, r.m)>>
        ELSE << >>

\* resolve(ci, cj), lines 227-239: the resolvents in the order of the loops, each
\* as its set of literals (the list of line 236 is an arbitrary listing of it,
\* chosen when the clause is stored)
RECURSIVE ResolveFrom(_, _, _)
ResolveFrom(ci, cj, m) ==
    IF m > Len(ci.literals) * Len(cj.literals) THEN << >>
    ELSE LET a == ((m - 1) \div Len(cj.literals)) + 1
             b == ((m - 1) % Len(cj.literals)) + 1
         IN  ResolventsAt(ci, cj, a, b) \o ResolveFrom(ci, cj, m + 1)

resolve(ci, cj) == ResolveFrom(ci, cj, 1)

\* The loop of lines 251-256 over the resolvents rs of one pair, from the
\* derived set der: the resolvents are visited in order up to the first empty
\* one (line 253 returns there); each visited one that is not in derived is
\* added to new and to derived.  The result is [ret: line 253 returned,
\* add: the clauses added to new, derived: the derived set afterwards]
ProcessResolvents(rs, der) ==
    LET empties == {m \in 1..Len(rs) : rs[m] = {}}
        visited == IF empties = {} THEN 1..Len(rs)
                   ELSE {m \in 1..Len(rs) : \A e \in empties : m < e}
        add     == {rs[m] : m \in visited} \ der
    IN  [ret |-> empties # {}, add |-> add, derived |-> der \cup add]

\* The Clause objects a set of resolvents can be stored as: one listing of
\* the literals of each
RECURSIVE Listings(_)
Listings(S) ==
    IF S = {} THEN {{}}
    ELSE LET e == CHOOSE e \in S : TRUE
         IN  {T \cup {Clause(o)} : T \in Listings(S \ {e}), o \in Orderings(e)}

\* Pairs that include each clause with itself: range(i, n) for range(i + 1, n)
RECURSIVE PairsFrom_WithSelf(_, _, _)
PairsFrom_WithSelf(i, j, len) ==
    IF i > len THEN << >>
    ELSE IF j > len THEN PairsFrom_WithSelf(i + 1, i + 1, len)
    ELSE <<(<<i, j>>)>> \o PairsFrom_WithSelf(i, j + 1, len)

\* The list comprehension of line 248, as pairs of (1-based) indices
RECURSIVE PairsFrom(_, _, _)
PairsFrom(i, j, len) ==
    IF i > len THEN << >>
    ELSE IF j > len THEN PairsFrom(i + 1, i + 2, len)
    ELSE <<(<<i, j>>)>> \o PairsFrom(i, j + 1, len)

Pairs_WithSelf(len) == PairsFrom_WithSelf(1, 1, len)

Pairs(len) == PairsFrom(1, 2, len)

\* Bounds of the saturation runs
MaxKB == 3
RoundCap == 3

P(t) == Predicate("P", <<Term(t)>>, FALSE)
NotP(t) == Predicate("P", <<Term(t)>>, TRUE)
Q(t) == Predicate("Q", <<Term(t)>>, FALSE)
NotQ(t) == Predicate("Q", <<Term(t)>>, TRUE)
R(t, u) == Predicate("R", <<Term(t), Term(u)>>, FALSE)
NotR(t, u) == Predicate("R", <<Term(t), Term(u)>>, TRUE)

\* The clauses the input lists are made of (no function terms)
InputClauses ==
    { Clause(<<P("x")>>), Clause(<<P("A")>>), Clause(<<NotP("A")>>),
      Clause(<<Q("B")>>),
      Clause(<<P("x"), Q("A")>>), Clause(<<Q("A"), P("x")>>),
      Clause(<<NotP("x"), NotP("A")>>),
      Clause(<<R("x", "A")>>), Clause(<<NotR("B", "x")>>) }

\* Inputs over two variables, whose saturation takes several rounds
LongerLists ==
    { <<Clause(<<P("A")>>), Clause(<<P("x"), NotP("x")>>), Clause(<<P("x"), NotP("y")>>)>>,
      <<Clause(<<P("x"), P("y")>>), Clause(<<NotP("x"), NotP("y")>>)>> }

InputLists == UNION {[1..m -> InputClauses] : m \in 1..MaxKB} \cup LongerLists

NoRun == [ran |-> FALSE, verdict |-> "", card |-> 0]

\* resolution(kb), lines 242-244
Init ==
    /\ UnifyOff
    /\ kb \in InputLists
    /\ clauses = kb
    /\ new = {}
    /\ derived = {ClauseKey(kb[a]) : a \in 1..Len(kb)}
    /\ n = 0 /\ pairs = << >> /\ k = 0
    /\ pc = "start" /\ verdict = "" /\ rounds = 0
    /\ prev = NoRun

\* Lines 247-248: the round's snapshot
RoundStart ==
    /\ pc = "start"
    /\ n' = Len(clauses)
    /\ pairs' = Pairs(Len(clauses))
    /\ k' = 1
    /\ pc' = "pairs"
    /\ rounds' = IF rounds < RoundCap THEN rounds + 1 ELSE rounds
    /\ UNCHANGED <<kb, clauses, new, derived, verdict, prev>>
    /\ UNCHANGED unifyVars

\* ResolvePair without new.add(res) (line 255): the clause only enters derived
ResolvePair_ForgetsNew ==
    /\ pc = "pairs"
    /\ k <= Len(pairs)
    /\ \E rs \in {resolve(clauses[pairs[k][1]], clauses[pairs[k][2]])} :
         \E out \in {ProcessResolvents(rs, derived)} :
           /\ derived' = out.derived
           /\ new' = new
           /\ IF out.ret
              THEN verdict' = "no" /\ pc' = "done" /\ k' = k
              ELSE verdict' = verdict /\ pc' = "pairs" /\ k' = k + 1
    /\ UNCHANGED <<kb, clauses, n, pairs, rounds, prev>>
    /\ UNCHANGED unifyVars

\* One iteration of the loop of line 249: lines 250-256 for the pair at k
ResolvePair ==
    /\ pc = "pairs"
    /\ k <= Len(pairs)
    /\ \E rs \in {resolve(clauses[pairs[k][1]], clauses[pairs[k][2]])} :
         \E out \in {ProcessResolvents(rs, derived)} :
           /\ derived' = out.derived
           /\ \E objs \in Listings(out.add) : new' = new \cup objs
           /\ IF out.ret
              THEN verdict' = "no" /\ pc' = "done" /\ k' = k
              ELSE verdict' = verdict /\ pc' = "pairs" /\ k' = k + 1
    /\ UNCHANGED <<kb, clauses, n, pairs, rounds, prev>>
    /\ UNCHANGED unifyVars

\* RoundEnd without the return of lines 257-258
RoundEnd_NeverReturns ==
    /\ pc = "pairs"
    /\ k > Len(pairs)
    /\ \E ord \in Orderings(new) : clauses' = clauses \o ord
    /\ new' = {}
    /\ pc' = "start"
    /\ UNCHANGED <<kb, derived, n, pairs, k, verdict, rounds, prev>>
    /\ UNCHANGED unifyVars

\* Lines 257-260 once the pairs are exhausted: return "yes", or extend the
\* working list by the buffer (a set, in whatever order it iterates) and clear it
RoundEnd ==
    /\ pc = "pairs"
    /\ k > Len(pairs)
    /\ IF new = {}
       THEN /\ verdict' = "yes"
            /\ pc' = "done"
            /\ UNCHANGED <<clauses, new>>
       ELSE /\ \E ord \in Orderings(new) : clauses' = clauses \o ord
            /\ new' = {}
            /\ pc' = "start"
            /\ verdict' = verdict
    /\ UNCHANGED <<kb, derived, n, pairs, k, rounds, prev>>
    /\ UNCHANGED unifyVars

Next == RoundStart \/ ResolvePair \/ RoundEnd

Spec == Init /\ [][Next]_vars

\* The loop is sequential code: a step that can be taken is taken
FairSpec == Spec /\ WF_vars(Next)

\* resolution called a second time on the same kb (the driver of lines 271-272
\* run again): the first outcome is kept in prev
RunAgain ==
    /\ pc = "done"
    /\ ~prev.ran
    /\ prev' = [ran |-> TRUE, verdict |-> verdict, card |-> Cardinality(derived)]
    /\ clauses' = kb
    /\ new' = {}
    /\ derived' = {ClauseKey(kb[a]) : a \in 1..Len(kb)}
    /\ n' = 0 /\ pairs' = << >> /\ k' = 0
    /\ pc' = "start" /\ verdict' = "" /\ rounds' = 0
    /\ UNCHANGED kb
    /\ UNCHANGED unifyVars

NextTwice == RoundStart \/ ResolvePair \/ RoundEnd \/ RunAgain

SpecTwice == Init /\ [][NextTwice]_vars

---------------------------------------------------------------------------
(* Vocabulary of the claims about unify and substitute *)

\* The variables that occur in a term or list
RECURSIVE VarsOf(_)
VarsOf(t) ==
    IF is_variable(t) THEN {t}
    ELSE UNION {VarsOf(t.args[a]) : a \in 1..Len(t.args)}

\* The variables reached from the variables of S through at most d bindings of s
RECURSIVE ReachedFrom(_, _, _)
ReachedFrom(S, s, d) ==
    IF d = 0 THEN S
    ELSE LET step == UNION {VarsOf(s[v]) : v \in S \cap DOMAIN s}
         IN  S \cup ReachedFrom(step, s, d - 1)

\* No key of s occurs in its own value, directly or through a chain of bindings
Acyclic(s) ==
    \A v \in DOMAIN s : v \notin ReachedFrom(VarsOf(s[v]), s, Cardinality(DOMAIN s))

\* s has a binding whose value holds a bound variable (a chain substitute must chase)
HasChain(s) == \E v \in DOMAIN s : VarsOf(s[v]) \cap DOMAIN s # {}

\* t with its variables renamed by rho
RECURSIVE Rename(_, _)
Rename(t, rho) ==
    IF is_variable(t) THEN Term(rho[t.name])
    ELSE [k |-> t.k, name |-> t.name,
          args |-> [a \in 1..Len(t.args) |-> Rename(t.args[a], rho)]]

Renamings == {rho \in [LowerNames -> LowerNames] :
                 \A a, b \in LowerNames : rho[a] = rho[b] => a = b}

SameUpToRenaming(a, b) == \E rho \in Renamings : Rename(a, rho) = b

\* C4: a substitution returned by unify(x, y, {}) makes x and y identical:
\* applied to both, the results are equal element by element.
C4_UnifierUnifies ==
    upc = "applied" => usx = usy

\* C4 witness: a unification of two different arguments that bound two
\* variables, one through the other, was applied.
C4_Witness ==
    /\ upc = "applied" /\ ux # uy
    /\ Cardinality(DOMAIN ures.m) >= 2 /\ HasChain(ures.m)
    /\ usx # ux /\ usy # uy

\* C5: unify(x, f(x), {}) fails, and every substitution unify returns has only
\* variables as keys and no variable occurring in its own value, directly or
\* through a chain of bindings (so that substitute terminates).
C5_OccursCheckAcyclic ==
    upc \in {"unified", "applied"} =>
        /\ (ux = Term("x") /\ uy = Function("f", <<Term("x")>>) => ures.st = "None")
        /\ (ures.st = "ok" =>
              /\ \A v \in DOMAIN ures.m : is_variable(v)
              /\ Acyclic(ures.m))

\* C5 witness: the occurs-check refused a binding that would close a cycle
\* through an earlier binding (x is bound to f(y), then y against f(x)).
C5_Witness ==
    /\ upc = "unified"
    /\ ux = List(<<Term("x"), Term("y")>>)
    /\ uy = List(<<Function("f", <<Term("y")>>), Function("f", <<Term("x")>>)>>)
    /\ ures.st = "None"

\* C6: unify(x, y, {}) succeeds exactly when unify(y, x, {}) does, and then the
\* two substitutions give the same unified term up to a renaming of variables.
C6_UnifySymmetric ==
    upc \in {"unified", "applied"} =>
        /\ (ures.st = "ok" <=> urev.st = "ok")
        /\ (ures.st = "ok" /\ urev.st = "ok" =>
              SameUpToRenaming(substitute_all(ux, ures.m), substitute_all(ux, urev.m)))

\* C6 witness: both directions succeeded with different substitutions.
C6_Witness ==
    /\ upc = "unified" /\ ures.st = "ok" /\ urev.st = "ok"
    /\ ures.m # urev.m
    /\ substitute_all(ux, ures.m) # substitute_all(ux, urev.m)

\* C7: for s returned by unify, substitute(substitute(t, s), s) = substitute(t, s),
\* and substitute(t, s) holds no variable that s binds.
C7_SubstituteIdempotent ==
    upc = "applied" =>
        /\ utwice = uonce
        /\ VarsOf(uonce) \cap DOMAIN ures.m = {}

\* C7 witness: substitute chased a chain of two bindings from the probed term.
C7_Witness ==
    /\ upc = "applied"
    /\ ut \in DOMAIN ures.m
    /\ ures.m[ut] \in DOMAIN ures.m
    /\ uonce # ures.m[ut]

---------------------------------------------------------------------------
(* Vocabulary of the claims about the saturation loop *)

\* The clauses of a list, as sets of literals
Keys(cs) == {ClauseKey(cs[a]) : a \in 1..Len(cs)}

\* The assignments of constants to the variables of a clause
Groundings == [LowerNames -> UpperNames]

\* The ground atom a literal denotes under the assignment g
AtomOf(lit, g) ==
    [name |-> lit.name,
     args |-> [a \in 1..Len(lit.args) |->
                 IF is_variable(lit.args[a]) THEN g[lit.args[a].name]
                 ELSE lit.args[a].name]]

AtomsOf(cs) ==
    UNION {{AtomOf(cs[c].literals[a], g) :
               a \in 1..Len(cs[c].literals), g \in Groundings} : c \in 1..Len(cs)}

\* cs, each clause universally quantified on its own, has a model: by
\* Herbrand's theorem (no function terms) one over the constants suffices
Satisfiable(cs) ==
    \E I \in SUBSET AtomsOf(cs) :
        \A c \in 1..Len(cs) : \A g \in Groundings :
            \E a \in 1..Len(cs[c].literals) :
                (AtomOf(cs[c].literals[a], g) \in I) # cs[c].literals[a].negated

\* Two literals that line 231 pairs and line 232 unifies
Resolvable(pi, pj) ==
    /\ pi.name = pj.name
    /\ pi.negated # pj.negated
    /\ unify(List(pi.args), List(pj.args), Ok(EmptySubst)).st = "ok"

\* No two clauses at distinct positions hold a complementary unifiable pair
NoComplementaryPair(cs) ==
    \A i, j \in 1..Len(cs) : i < j =>
        \A a \in 1..Len(cs[i].literals) : \A b \in 1..Len(cs[j].literals) :
            ~Resolvable(cs[i].literals[a], cs[j].literals[b])

\* C1: resolution returns "no" exactly when the input clause set is
\* unsatisfiable (and "yes" when it is satisfiable).
C1_DecidesUnsatisfiability ==
    pc = "done" => (verdict = "no" <=> ~Satisfiable(kb))

\* C2: a second run of resolution on the same input returns the same verdict
\* and ends with as many distinct derived clauses as the first.
C2_SameOutcomeTwice ==
    pc = "done" /\ prev.ran =>
        /\ verdict = prev.verdict
        /\ Cardinality(derived) = prev.card

\* C3: on an input without function terms resolution eventually returns.
C3_Terminates == <>(pc = "done")

\* C3 witness: a run that returned after three rounds or more, having
\* extended the working list.
C3_Witness ==
    pc = "done" /\ verdict \in {"yes", "no"} /\ rounds >= 3 /\ Len(clauses) > Len(kb)

\* C8: "yes" is returned only at a fixpoint: the derived set is the set of the
\* clauses of the working list and every resolvent of every pair i < j is
\* non-empty and in it; and an input with no complementary unifiable pair of
\* literals across two positions returns "yes" after one round, nothing added.
C8_YesOnlyAtFixpoint ==
    /\ pc = "done" /\ verdict = "yes" =>
          /\ derived = Keys(clauses)
          /\ \A i, j \in 1..Len(clauses) : i < j =>
                \A r \in Range(resolve(clauses[i], clauses[j])) :
                    r # {} /\ r \in derived
    /\ pc = "done" /\ NoComplementaryPair(kb) =>
          verdict = "yes" /\ rounds = 1 /\ clauses = kb

\* C8 witness: "yes" returned on a working list that was extended, in a
\* round later than the first.
C8_Witness ==
    pc = "done" /\ verdict = "yes" /\ rounds >= 2 /\ Len(clauses) > Len(kb)

\* C9: the working list never holds two positions whose clauses are equal as
\* sets of literals.
C9_NoClauseTwice ==
    \A a, b \in 1..Len(clauses) :
        a < b => ClauseKey(clauses[a]) # ClauseKey(clauses[b])

\* While a round runs: n is the length of the list, every pair of the round is
\* i < j within it, and the buffer holds the derived clauses not yet in the list
SnapshotHolds ==
    pc = "pairs" =>
        /\ n = Len(clauses)
        /\ \A m \in 1..Len(pairs) :
              1 <= pairs[m][1] /\ pairs[m][1] < pairs[m][2] /\ pairs[m][2] <= n
        /\ Keys(clauses) \subseteq derived
        /\ {ClauseKey(c) : c \in new} = derived \ Keys(clauses)

\* A step keeps the list as a prefix, and changes it only when the pairs of
\* the round are exhausted, appending the clauses of the buffer once each
GrowsAtRoundEnd ==
    /\ Len(clauses') >= Len(clauses)
    /\ SubSeq(clauses', 1, Len(clauses)) = clauses
    /\ clauses' # clauses =>
          /\ pc = "pairs" /\ k > Len(pairs) /\ pc' = "start"
          /\ Range(SubSeq(clauses', Len(clauses) + 1, Len(clauses'))) = new
          /\ Len(clauses') = Len(clauses) + Cardinality(new)

\* C10: a round pairs only positions i < j of the list as it was at the start
\* of the round (never a position with itself); the list only grows, and only
\* at the end of a round, by the clauses of the buffer, which are the clauses
\* the round added to derived.
C10_SnapshotPairing == [](SnapshotHolds) /\ [][GrowsAtRoundEnd]_vars

\* C10 witness: in a later round, a pair is about to be resolved while the
\* buffer holds clauses derived in this round, none of them in the list.
C10_Witness ==
    /\ pc = "pairs" /\ k <= Len(pairs) /\ rounds >= 2
    /\ new # {} /\ n > Len(kb)
    /\ \A c \in new : ClauseKey(c) \notin Keys(clauses)

=============================================================================
